---- MODULE Spec2Model ----
(***************************************************************************)
(* Model of the urt crate (src/src/erroroption.rs, double.rs,              *)
(* doubleoption.rs): the ErrorOption<T, E> union, its combinators, its     *)
(* in-place mutators and its three iterators.                              *)
(*                                                                         *)
(* The payload types are instantiated as T = E = i32 (a Copy type, so a    *)
(* by-value combinator works on a copy of the cell and the cell stays).    *)
(* Value payloads are drawn from 0..MaxVal (0 is i32::default()) and error *)
(* payloads from -MaxErr..-1, so that a value and an error payload never   *)
(* coincide and a mix-up of the two shows.                                 *)
(*                                                                         *)
(* A union is a tuple whose first element is the variant tag:              *)
(*   <<"Value", v>>, <<"Empty">>, <<"Error", e>>                           *)
(* Option and Result are modelled the same way:                            *)
(*   <<"Some", x>>, <<"None">>, <<"Ok", x>>, <<"Err", e>>                  *)
(***************************************************************************)
EXTENDS Integers, Sequences, FiniteSets, TLC

\* ------------------------------------------------------------------ bounds
MaxVal == 1
MaxErr == 2
MaxSteps == 3

\* i32::default(), the T::default() of as_result
T_default == 0

Vals == 0..MaxVal
Errs == (0 - MaxErr)..(0 - 1)

\* ------------------------------------------------------- variants and types
Value(v) == <<"Value", v>>
Empty == <<"Empty">>
Error(e) == <<"Error", e>>

Some(x) == <<"Some", x>>
None == <<"None">>
Ok(x) == <<"Ok", x>>
Err(e) == <<"Err", e>>

Tag(u) == u[1]
Payload(u) == u[2]

\* every ErrorOption<i32, i32> over the bounded payloads
ErrorOptions == {Value(v) : v \in Vals} \cup {Empty} \cup {Error(e) : e \in Errs}

\* ------------------------------------------------------------ call outcomes
\* What a call did: the value it returned, how often it invoked the closure
\* it was given, and whether it panicked instead of returning.
Return(r) == [ret |-> r, calls |-> 0, panic |-> FALSE, msg |-> <<>>]
ReturnCalling(r, n) == [ret |-> r, calls |-> n, panic |-> FALSE, msg |-> <<>>]

\* A panic: nothing is returned. The message is kept as the sequence of the
\* pieces the format string puts together, so that what it holds can be read
\* (the backquotes of the source's messages are left out).
Nothing == <<"!">>
Panic(m) == [ret |-> Nothing, calls |-> 0, panic |-> TRUE, msg |-> m]

VARIABLES
    cell,       \* the ErrorOption the driver owns
    op,         \* name of the last method called on it ("" before any call)
    prev,       \* name of the method called before that one
    pre,        \* the cell as it was when that call started
    arg,        \* the argument(s) of that call
    res,        \* what the call returned
    calls,      \* how many times the call invoked its closure
    panicked,   \* whether the call panicked
    report,     \* the panic message of the call, <<>> when it returned
    dropped,    \* the unions the call dropped (their destructors ran), in order
    forgotten,  \* the unions the call passed to mem::forget (no destructor runs)
    dbl,        \* the Double the driver owns
    dopt,       \* the DoubleOption the driver owns
    it,         \* the live iterator: [kind, inner], NoIter when there is none
    src,        \* the union the live iterator was derived from
    out         \* what each step of the live iterator yielded, in order

callVars == <<op, prev, pre, arg, res, calls, panicked, report, dropped, forgotten>>
iterVars == <<it, src, out>>
otherVars == <<dbl, dopt, it, src, out>>
vars == <<cell, dbl, dopt, op, prev, pre, arg, res, calls, panicked, report, dropped,
          forgotten, it, src, out>>


\* value_or_default with the error payload overwritten, as value_or does
value_or_default_overwriting(self, err) ==
    CASE Tag(self) = "Value" -> Return(Ok(Payload(self)))
      [] OTHER -> Return(Err(err))

\* ------------------------------------------------------------- conversions
value_or_default(self, err) ==
    CASE Tag(self) = "Value" -> Return(Ok(Payload(self)))
      [] Tag(self) = "Empty" -> Return(Err(err))
      [] Tag(self) = "Error" -> Return(Err(Payload(self)))


\* value_or keeping an existing error payload, as value_or_default does
value_or_keeping(self, err) ==
    CASE Tag(self) = "Value" -> Return(Ok(Payload(self)))
      [] Tag(self) = "Empty" -> Return(Err(err))
      [] Tag(self) = "Error" -> Return(Err(Payload(self)))

value_or(self, err) ==
    CASE Tag(self) = "Value" -> Return(Ok(Payload(self)))
      [] OTHER -> Return(Err(err))


\* as_result with Empty treated as a failure
as_result_empty_fails(self) ==
    CASE Tag(self) = "Value" -> Return(Ok(Payload(self)))
      [] Tag(self) = "Empty" -> Return(Err(T_default))
      [] Tag(self) = "Error" -> Return(Err(Payload(self)))

as_result(self) ==
    CASE Tag(self) = "Value" -> Return(Ok(Payload(self)))
      [] Tag(self) = "Empty" -> Return(Ok(T_default))
      [] Tag(self) = "Error" -> Return(Err(Payload(self)))


\* ----------------------------------------------------------------- queries
is_value(self) == Return(Tag(self) = "Value")

is_empty(self) == Return(Tag(self) = "Empty")

is_error(self) == Return(Tag(self) = "Error")

as_option(self) ==
    CASE Tag(self) = "Value" -> Some(Payload(self))
      [] OTHER -> None


\* ----------------------------------------------------------- fatal unwraps
\* {error:?} of an i32: its decimal digits
Debug(x) == ToString(x)

\* The default build: the feature panic_immediate_abort is off, so the arm
\* that formats msg and the payload is compiled in; every other non-matching
\* state reaches the bare panic!(), whose message is "explicit panic".
expect(self, msg) ==
    CASE Tag(self) = "Value" -> Return(Payload(self))
      [] Tag(self) = "Error" -> Panic(<<msg, ": ", Debug(Payload(self))>>)
      [] OTHER -> Panic(<<"explicit panic">>)

expect_error(self, msg) ==
    CASE Tag(self) = "Error" -> Return(Payload(self))
      [] Tag(self) = "Value" -> Panic(<<msg, ": ", Debug(Payload(self))>>)
      [] OTHER -> Panic(<<"explicit panic">>)

\* unwrap with one message for both failing states
unwrap_one_message(self) ==
    CASE Tag(self) = "Value" -> Return(Payload(self))
      [] OTHER -> Panic(<<"called ErrorOption::unwrap() on a ", "Empty", " value">>)

unwrap(self) ==
    CASE Tag(self) = "Value" -> Return(Payload(self))
      [] Tag(self) = "Empty" ->
            Panic(<<"called ErrorOption::unwrap() on a ", "Empty", " value">>)
      [] Tag(self) = "Error" ->
            Panic(<<"called ErrorOption::unwrap() on a ", "Error", " value">>)

unwrap_error(self) ==
    CASE Tag(self) = "Error" -> Return(Payload(self))
      [] Tag(self) = "Empty" ->
            Panic(<<"called ErrorOption::unwrap_error() on a ", "Empty", " value">>)
      [] Tag(self) = "Value" ->
            Panic(<<"called ErrorOption::unwrap_error() on a ", "Value", " value">>)

\* references: a shared borrow freezes the payload, so &T is modelled by the
\* payload it points at; an exclusive borrow likewise, until it is written.
as_ref(self) ==
    CASE Tag(self) = "Value" -> Value(Payload(self))
      [] Tag(self) = "Empty" -> Empty
      [] Tag(self) = "Error" -> Error(Payload(self))

as_mut(self) ==
    CASE Tag(self) = "Value" -> Value(Payload(self))
      [] Tag(self) = "Empty" -> Empty
      [] Tag(self) = "Error" -> Error(Payload(self))

\* --------------------------------------------------- boolean combinators
\* A closure FnOnce(T) -> ErrorOption<M, E> is a function over Vals; calling
\* it is applying it, counted in the outcome. A closure FnOnce() -> Self is
\* modelled by the union it produces.
and(self, optb) ==
    CASE Tag(self) = "Value" -> Return(optb)
      [] Tag(self) = "Empty" -> Return(Empty)
      [] Tag(self) = "Error" -> Return(Error(Payload(self)))


\* and_then collapsing an Error to Empty
and_then_dropping_error(self, f) ==
    CASE Tag(self) = "Value" -> ReturnCalling(f[Payload(self)], 1)
      [] OTHER -> Return(Empty)

and_then(self, f) ==
    CASE Tag(self) = "Value" -> ReturnCalling(f[Payload(self)], 1)
      [] Tag(self) = "Empty" -> Return(Empty)
      [] Tag(self) = "Error" -> Return(Error(Payload(self)))

or(self, optb) ==
    CASE Tag(self) = "Value" -> Return(Value(Payload(self)))
      [] OTHER -> Return(optb)


\* or_else that runs its producer before looking at self
or_else_eager(self, f) ==
    CASE Tag(self) = "Value" -> ReturnCalling(Value(Payload(self)), 1)
      [] OTHER -> ReturnCalling(f, 1)

or_else(self, f) ==
    CASE Tag(self) = "Value" -> Return(Value(Payload(self)))
      [] OTHER -> ReturnCalling(f, 1)


\* xor that keeps self when both sides are Value, as or does
xor_keeping_first(self, optb) ==
    CASE Tag(self) = "Value" -> Return(Value(Payload(self)))
      [] Tag(optb) = "Value" -> Return(Value(Payload(optb)))
      [] OTHER -> Return(Empty)

xor(self, optb) ==
    CASE Tag(self) = "Value" /\ Tag(optb) \in {"Error", "Empty"} ->
            Return(Value(Payload(self)))
      [] Tag(self) \in {"Error", "Empty"} /\ Tag(optb) = "Value" ->
            Return(Value(Payload(optb)))
      [] OTHER -> Return(Empty)


\* zip that lets an Error of self through
zip_propagating_error(self, other) ==
    CASE Tag(self) = "Value" /\ Tag(other) = "Value" ->
            Return(Value(<<Payload(self), Payload(other)>>))
      [] Tag(self) = "Error" -> Return(Error(Payload(self)))
      [] OTHER -> Return(Empty)

zip(self, other) ==
    CASE Tag(self) = "Value" /\ Tag(other) = "Value" ->
            Return(Value(<<Payload(self), Payload(other)>>))
      [] OTHER -> Return(Empty)

\* ------------------------------------------------------ in-place mutation
\* impl Default for ErrorOption
default == Empty


\* take that hands out a copy and leaves the cell as it was
take_copying(self) == [self |-> self, ret |-> self, calls |-> 0, panic |-> FALSE, msg |-> <<>>]

\* mem::take(self): the cell is left as Default::default(), the old state
\* is returned.
take(self) == [self |-> default, ret |-> self, calls |-> 0, panic |-> FALSE, msg |-> <<>>]


\* replace handing back only what as_option keeps: an Error comes back Empty
replace_collapsing(self, value) ==
    [self |-> Value(value),
     ret |-> IF Tag(self) = "Value" THEN self ELSE Empty,
     calls |-> 0, panic |-> FALSE, msg |-> <<>>]

\* mem::replace(self, Value(value))
replace(self, value) ==
    [self |-> Value(value), ret |-> self, calls |-> 0, panic |-> FALSE, msg |-> <<>>]

\* *self = Value(value): the assignment drops the union that was there; the
\* returned &mut T views the new payload.
insert(self, value) ==
    [self |-> Value(value), ret |-> Payload(as_mut(Value(value))),
     calls |-> 0, panic |-> FALSE, msg |-> <<>>,
     dropped |-> <<self>>, forgotten |-> <<>>]


\* get_or_insert that overwrites whatever the cell holds, as insert does
get_or_insert_overwriting(self, value) ==
    [self |-> Value(value), ret |-> Payload(as_mut(Value(value))),
     calls |-> 0, panic |-> FALSE, msg |-> <<>>]


\* get_or_insert that fills an Empty cell only and leaves an Error in place
get_or_insert_keeping_error(self, value) ==
    LET new == IF Tag(self) = "Empty" THEN Value(value) ELSE self
    IN  [self |-> new, ret |-> Payload(as_mut(new)),
         calls |-> 0, panic |-> FALSE, msg |-> <<>>]

\* if !self.is_value() { *self = Value(value) }; the cell is a Value when
\* as_mut().unwrap_unchecked() runs, so the view is the one of its payload.
\* The assignment drops the union it overwrites.
get_or_insert(self, value) ==
    LET new == IF ~is_value(self).ret THEN Value(value) ELSE self
    IN  [self |-> new, ret |-> Payload(as_mut(new)),
         calls |-> 0, panic |-> FALSE, msg |-> <<>>,
         dropped |-> IF ~is_value(self).ret THEN <<self>> ELSE <<>>,
         forgotten |-> <<>>]

get_or_insert_default(self) == get_or_insert(self, T_default)

\* The producer f is modelled by the value it produces; it runs only when the
\* cell is not a Value. mem::replace hands the overwritten union to
\* mem::forget, which disposes of it without running its destructor.
get_or_insert_with(self, f) ==
    LET new == IF ~is_value(self).ret THEN Value(f) ELSE self
    IN  [self |-> new, ret |-> Payload(as_mut(new)),
         calls |-> IF ~is_value(self).ret THEN 1 ELSE 0,
         panic |-> FALSE, msg |-> <<>>,
         dropped |-> <<>>,
         forgotten |-> IF ~is_value(self).ret THEN <<self>> ELSE <<>>]



\* ------------------------------------------------------------------ Clone
\* The payloads are i32, whose clone is the same number.
clone(self) ==
    CASE Tag(self) = "Value" -> Return(Value(Payload(self)))
      [] Tag(self) = "Error" -> Return(Error(Payload(self)))
      [] Tag(self) = "Empty" -> Return(Empty)

\* clone_from that gives up when the variants differ
clone_from_same_variant_only(self, source) ==
    [self |-> IF Tag(self) = Tag(source) THEN source ELSE self, ret |-> <<>>,
     calls |-> 0, panic |-> FALSE, msg |-> <<>>, dropped |-> <<>>, forgotten |-> <<>>]

\* Two Values or two Errors: the payload of self is overwritten where it is
\* (destination.clone_from(source)) and no union is dropped. Any other pair:
\* *destination = source.clone(), which drops the union that was there.
clone_from(self, source) ==
    CASE Tag(self) = "Value" /\ Tag(source) = "Value" ->
            [self |-> Value(Payload(source)), ret |-> <<>>,
             calls |-> 0, panic |-> FALSE, msg |-> <<>>,
             dropped |-> <<>>, forgotten |-> <<>>]
      [] Tag(self) = "Error" /\ Tag(source) = "Error" ->
            [self |-> Error(Payload(source)), ret |-> <<>>,
             calls |-> 0, panic |-> FALSE, msg |-> <<>>,
             dropped |-> <<>>, forgotten |-> <<>>]
      [] OTHER ->
            [self |-> clone(source).ret, ret |-> <<>>,
             calls |-> 0, panic |-> FALSE, msg |-> <<>>,
             dropped |-> <<self>>, forgotten |-> <<>>]

\* ------------------------------------------------ writes through a view
\* a write through a view that makes a Value of whatever it points into
write_through_retagging(self, x) ==
    [self |-> Value(x), ret |-> <<>>, calls |-> 0, panic |-> FALSE, msg |-> <<>>]

\* The caller stores x through the &mut T or &mut E a mutable view holds
\* (Value(ref mut value) => Value(value), Error(ref mut error) => Error(error)):
\* the reference points at the payload inside self, so that payload changes
\* where it is. The view of Empty holds no reference.
write_through(self, x) ==
    [self |-> CASE Tag(self) = "Value" -> Value(x)
                [] Tag(self) = "Error" -> Error(x)
                [] OTHER -> self,
     ret |-> <<>>, calls |-> 0, panic |-> FALSE, msg |-> <<>>]

\* ------------------------------------------------- queries and adapters
\* A closure FnOnce(T) -> bool or FnOnce(E) -> bool is a function over the
\* payloads; it runs only in the arm of its variant.
is_value_and(self, f) ==
    CASE Tag(self) = "Value" -> ReturnCalling(f[Payload(self)], 1)
      [] OTHER -> Return(FALSE)

is_error_and(self, f) ==
    CASE Tag(self) = "Error" -> ReturnCalling(f[Payload(self)], 1)
      [] OTHER -> Return(FALSE)

error(self) ==
    CASE Tag(self) = "Error" -> Return(Some(Payload(self)))
      [] OTHER -> Return(None)

\* The producer f is modelled by the value it produces.
value_or_else(self, f) ==
    CASE Tag(self) = "Value" -> Return(Ok(Payload(self)))
      [] OTHER -> ReturnCalling(Err(f), 1)

\* result that raises the error it holds instead of returning it
result_raising_error(self) ==
    CASE Tag(self) = "Value" -> Return(Ok(Some(Payload(self))))
      [] Tag(self) = "Empty" -> Return(Ok(None))
      [] Tag(self) = "Error" -> Panic(<<Debug(Payload(self))>>)

result(self) ==
    CASE Tag(self) = "Value" -> Return(Ok(Some(Payload(self))))
      [] Tag(self) = "Empty" -> Return(Ok(None))
      [] Tag(self) = "Error" -> Return(Err(Payload(self)))

switch(self) ==
    CASE Tag(self) = "Value" -> Return(Error(Payload(self)))
      [] Tag(self) = "Empty" -> Return(Empty)
      [] Tag(self) = "Error" -> Return(Value(Payload(self)))

\* ------------------------------------------------------ unwraps with a fallback
unwrap_or(self, default_value) ==
    CASE Tag(self) = "Value" -> Return(Payload(self))
      [] OTHER -> Return(default_value)

unwrap_or_else(self, f) ==
    CASE Tag(self) = "Value" -> Return(Payload(self))
      [] OTHER -> ReturnCalling(f, 1)

unwrap_or_default(self) ==
    CASE Tag(self) = "Value" -> Return(Payload(self))
      [] OTHER -> Return(T_default)

\* On a Value unwrap_unchecked returns the payload. Otherwise the call is
\* undefined behaviour and what happens is the build's choice: a build with
\* debug assertions panics in debug_assert!, any other build may return any
\* i32 at all (unreachable_unchecked). build is <<"debug_assertions">> or
\* <<"release", x>>, x being the i32 such a build comes up with.
unwrap_unchecked(self, build) ==
    CASE Tag(self) = "Value" -> Return(Payload(self))
      [] build[1] = "debug_assertions" -> Panic(<<"assertion failed: self.is_value()">>)
      [] OTHER -> Return(build[2])

\* ------------------------------------------------------------ transformers
\* A closure FnOnce(T) -> M or FnOnce(E) -> M is a function over the
\* payloads, M being i32; a producer FnOnce() -> M is the value it produces.
map(self, f) ==
    CASE Tag(self) = "Value" -> ReturnCalling(Value(f[Payload(self)]), 1)
      [] Tag(self) = "Empty" -> Return(Empty)
      [] Tag(self) = "Error" -> Return(Error(Payload(self)))

map_or(self, default_value, f) ==
    CASE Tag(self) = "Value" -> ReturnCalling(f[Payload(self)], 1)
      [] OTHER -> Return(default_value)

map_or_else(self, default_fn, f) ==
    CASE Tag(self) = "Value" -> ReturnCalling(f[Payload(self)], 1)
      [] OTHER -> ReturnCalling(default_fn, 1)

map_or_error(self, default_error, default_fn, f) ==
    CASE Tag(self) = "Value" -> ReturnCalling(f[Payload(self)], 1)
      [] Tag(self) = "Empty" -> ReturnCalling(default_fn, 1)
      [] Tag(self) = "Error" -> ReturnCalling(default_error[Payload(self)], 1)

map_error(self, f) ==
    CASE Tag(self) = "Value" -> Return(Value(Payload(self)))
      [] Tag(self) = "Empty" -> Return(Empty)
      [] Tag(self) = "Error" -> ReturnCalling(Error(f[Payload(self)]), 1)

\* The observer returns nothing; what is kept of it is whether it ran.
inspect(self) ==
    IF Tag(self) = "Value" THEN ReturnCalling(self, 1) ELSE Return(self)

inspect_err(self) ==
    IF Tag(self) = "Error" THEN ReturnCalling(self, 1) ELSE Return(self)

\* value.deref() of a T that dereferences to an i32 is modelled by that i32.
as_deref(self) ==
    CASE Tag(self) = "Value" -> Return(Value(Payload(self)))
      [] Tag(self) = "Empty" -> Return(Empty)
      [] Tag(self) = "Error" -> Return(Error(Payload(self)))

as_deref_mut(self) ==
    CASE Tag(self) = "Value" -> Return(Value(Payload(self)))
      [] Tag(self) = "Empty" -> Return(Empty)
      [] Tag(self) = "Error" -> Return(Error(Payload(self)))


\* ----------------------------------------------------------------- filters
\* A predicate FnOnce(&T) -> bool is a function over the payloads, a predicate
\* FnOnce(&Self) -> bool one over the unions; calls counts every closure run.
filter(self, predicate) ==
    IF Tag(self) = "Value"
    THEN ReturnCalling(IF predicate[Payload(self)] THEN Value(Payload(self)) ELSE Empty, 1)
    ELSE Return(Empty)

filter_or(self, predicate, default_value) ==
    IF Tag(self) = "Value"
    THEN ReturnCalling(IF predicate[Payload(self)] THEN Value(Payload(self))
                       ELSE default_value, 1)
    ELSE Return(default_value)

filter_or_else(self, predicate, default_fn) ==
    IF Tag(self) = "Value"
    THEN IF predicate[Payload(self)]
         THEN ReturnCalling(Value(Payload(self)), 1)
         ELSE ReturnCalling(default_fn, 2)
    ELSE ReturnCalling(default_fn, 1)

filter_predicate(self, predicate) ==
    ReturnCalling(IF predicate[self] THEN self ELSE Empty, 1)

filter_predicate_or(self, predicate, default_value) ==
    ReturnCalling(IF predicate[self] THEN self ELSE default_value, 1)

filter_predicate_or_else(self, predicate, default_fn) ==
    IF predicate[self]
    THEN ReturnCalling(self, 1)
    ELSE ReturnCalling(default_fn[self], 2)

\* -------------------------------------------------------------------- zips
zip_to_option(self, other) ==
    CASE Tag(self) = "Value" /\ Tag(other) = "Value" ->
            Return(Some(<<Payload(self), Payload(other)>>))
      [] OTHER -> Return(None)

zip_with_option(self, other) ==
    CASE Tag(self) = "Value" /\ Tag(other) = "Some" ->
            Return(Some(<<Payload(self), Payload(other)>>))
      [] OTHER -> Return(None)

\* A closure FnOnce(T, U) -> R is a function over pairs of payloads.
zip_with(self, other, f) ==
    CASE Tag(self) = "Value" /\ Tag(other) = "Value" ->
            ReturnCalling(Value(f[Payload(self), Payload(other)]), 1)
      [] OTHER -> Return(Empty)

zip_to_option_with(self, other, f) ==
    CASE Tag(self) = "Value" /\ Tag(other) = "Value" ->
            ReturnCalling(Some(f[Payload(self), Payload(other)]), 1)
      [] OTHER -> Return(None)

\* self holds a pair.
unzip(self) ==
    CASE Tag(self) = "Value" ->
            Return(<<Value(Payload(self)[1]), Value(Payload(self)[2])>>)
      [] OTHER -> Return(<<Empty, Empty>>)

\* copied and cloned of an ErrorOption<&T, E> or ErrorOption<&mut T, E>: map
\* with the closure that reads the i32 behind the reference.
copied(self) == map(self, [t \in Vals \cup Errs |-> t])

cloned(self) == map(self, [t \in Vals \cup Errs |-> t])

\* -------------------------------------------------------------- iterators
\* An iterator is [kind, inner]: inner is the Option the struct holds.
NoIter == [kind |-> "none", inner |-> None]

iter(self) == [kind |-> "Iter", inner |-> as_option(as_ref(self))]

iter_mut(self) == [kind |-> "IterMut", inner |-> as_option(as_mut(self))]

into_iter(self) == [kind |-> "IntoIter", inner |-> as_option(self)]

\* self.inner.take(): inner is left None and its old content is returned.
Iter_next(self) == [self |-> [self EXCEPT !.inner = None], ret |-> self.inner]

Iter_next_back(self) == [self |-> [self EXCEPT !.inner = None], ret |-> self.inner]

Iter_size_hint(self) ==
    LET n == IF Tag(self.inner) = "Some" THEN 1 ELSE 0
    IN  <<n, Some(n)>>

IterMut_next(self) == [self |-> [self EXCEPT !.inner = None], ret |-> self.inner]

IterMut_next_back(self) == [self |-> [self EXCEPT !.inner = None], ret |-> self.inner]

\* the size_hint a missing override would leave: Iterator's default
IterMut_size_hint_default(self) == <<0, None>>

IterMut_size_hint(self) ==
    LET n == IF Tag(self.inner) = "Some" THEN 1 ELSE 0
    IN  <<n, Some(n)>>

IntoIter_next(self) == [self |-> [self EXCEPT !.inner = None], ret |-> self.inner]

\* next_back that reads inner without taking it
IntoIter_next_back_peeking(self) == [self |-> self, ret |-> self.inner]

IntoIter_next_back(self) == [self |-> [self EXCEPT !.inner = None], ret |-> self.inner]

IntoIter_size_hint(self) ==
    LET n == IF Tag(self.inner) = "Some" THEN 1 ELSE 0
    IN  <<n, Some(n)>>

\* trait dispatch on the iterator's type
next(i) ==
    CASE i.kind = "Iter" -> Iter_next(i)
      [] i.kind = "IterMut" -> IterMut_next(i)
      [] i.kind = "IntoIter" -> IntoIter_next(i)

next_back(i) ==
    CASE i.kind = "Iter" -> Iter_next_back(i)
      [] i.kind = "IterMut" -> IterMut_next_back(i)
      [] i.kind = "IntoIter" -> IntoIter_next_back(i)

size_hint(i) ==
    CASE i.kind = "Iter" -> Iter_size_hint(i)
      [] i.kind = "IterMut" -> IterMut_size_hint(i)
      [] i.kind = "IntoIter" -> IntoIter_size_hint(i)


\* ================================================================== Double
\* Double<T, U> with T = U = i32: <<"This", t>> or <<"That", u>>, either
\* payload any of the integers the model uses.
This(t) == <<"This", t>>
That(u) == <<"That", u>>

Ints == Vals \cup Errs

Doubles == {This(t) : t \in Ints} \cup {That(u) : u \in Ints}

Double_is_this(self) ==
    CASE Tag(self) = "This" -> Return(TRUE)
      [] Tag(self) = "That" -> Return(FALSE)

Double_is_that(self) ==
    CASE Tag(self) = "This" -> Return(FALSE)
      [] Tag(self) = "That" -> Return(TRUE)

\* A closure FnOnce(T) -> bool is a function over Ints.
Double_is_this_and(self, f) ==
    CASE Tag(self) = "This" -> ReturnCalling(f[Payload(self)], 1)
      [] Tag(self) = "That" -> Return(FALSE)

\* is_that_and that asks the predicate before looking at the variant
Double_is_that_and_eager(self, f) ==
    CASE Tag(self) = "This" -> ReturnCalling(FALSE, 1)
      [] Tag(self) = "That" -> ReturnCalling(f[Payload(self)], 1)

Double_is_that_and(self, f) ==
    CASE Tag(self) = "This" -> Return(FALSE)
      [] Tag(self) = "That" -> ReturnCalling(f[Payload(self)], 1)

\* A closure FnOnce() -> E is modelled by the value it produces.
Double_this_or_else(self, f) ==
    CASE Tag(self) = "This" -> Return(Ok(Payload(self)))
      [] OTHER -> ReturnCalling(Err(f), 1)

Double_that_or_else(self, f) ==
    CASE Tag(self) = "That" -> Return(Ok(Payload(self)))
      [] OTHER -> ReturnCalling(Err(f), 1)

Double_flip(self) ==
    CASE Tag(self) = "This" -> Return(That(Payload(self)))
      [] Tag(self) = "That" -> Return(This(Payload(self)))

\* switch that hands the union back as it is
Double_switch_identity(self) == Return(self)

Double_switch(self) ==
    CASE Tag(self) = "This" -> Return(That(Payload(self)))
      [] Tag(self) = "That" -> Return(This(Payload(self)))

Double_unwrap_this_or_else(self, f) ==
    CASE Tag(self) = "This" -> Return(Payload(self))
      [] OTHER -> ReturnCalling(f, 1)

Double_unwrap_that_or_else(self, f) ==
    CASE Tag(self) = "That" -> Return(Payload(self))
      [] OTHER -> ReturnCalling(f, 1)

\* unwrap_union passing the payloads in operand order in both arms
Double_unwrap_union_unordered(self, other, f) ==
    CASE Tag(self) = "This" /\ Tag(other) = "That" ->
            ReturnCalling(f[Payload(self), Payload(other)], 1)
      [] Tag(self) = "That" /\ Tag(other) = "This" ->
            ReturnCalling(f[Payload(self), Payload(other)], 1)
      [] Tag(self) = "This" /\ Tag(other) = "This" ->
            Panic(<<"called Double::unwrap_union() on ", "This", " and ", "This", " variants">>)
      [] Tag(self) = "That" /\ Tag(other) = "That" ->
            Panic(<<"called Double::unwrap_union() on ", "That", " and ", "That", " variants">>)

\* A closure FnOnce(T, U) -> O is a function over Ints \X Ints.
Double_unwrap_union(self, other, f) ==
    CASE Tag(self) = "This" /\ Tag(other) = "That" ->
            ReturnCalling(f[Payload(self), Payload(other)], 1)
      [] Tag(self) = "That" /\ Tag(other) = "This" ->
            ReturnCalling(f[Payload(other), Payload(self)], 1)
      [] Tag(self) = "This" /\ Tag(other) = "This" ->
            Panic(<<"called Double::unwrap_union() on ", "This", " and ", "This", " variants">>)
      [] Tag(self) = "That" /\ Tag(other) = "That" ->
            Panic(<<"called Double::unwrap_union() on ", "That", " and ", "That", " variants">>)


\* ============================================================ DoubleOption
\* DoubleOption<T, U> with T = U = i32: <<"First", t>>, <<"Second", u>> or
\* <<"Empty">>.
First(t) == <<"First", t>>
Second(u) == <<"Second", u>>
DoubleOption_Empty == <<"Empty">>

DoubleOptions ==
    {First(t) : t \in Vals} \cup {Second(u) : u \in Errs} \cup {DoubleOption_Empty}

\* is_fist that only rules out Empty
DoubleOption_is_fist_any_payload(self) ==
    CASE Tag(self) = "Empty" -> Return(FALSE)
      [] OTHER -> Return(TRUE)

DoubleOption_is_fist(self) ==
    CASE Tag(self) = "First" -> Return(TRUE)
      [] OTHER -> Return(FALSE)

DoubleOption_is_second(self) ==
    CASE Tag(self) = "Second" -> Return(TRUE)
      [] OTHER -> Return(FALSE)

DoubleOption_is_empty(self) ==
    CASE Tag(self) = "Empty" -> Return(TRUE)
      [] OTHER -> Return(FALSE)

\* The traits DoubleOption has: the derive list of the enum and the one
\* hand-written impl, Clone (the serde feature adds Serialize and
\* Deserialize). There is no Default among them.
DoubleOption_traits ==
    {"Copy", "PartialEq", "Eq", "PartialOrd", "Ord", "Hash", "Debug", "Clone"}

\* What a trait item of DoubleOption resolves to when no impl provides it.
Unimplemented(trait) == <<"unimplemented", trait>>

\* DoubleOption::default(): the crate provides no such item, so a driver
\* asking for it gets no value.
DoubleOption_default ==
    IF "Default" \in DoubleOption_traits
    THEN DoubleOption_Empty
    ELSE Unimplemented("Default")


\* ------------------------------------------- Clone for Double, DoubleOption
Double_clone(self) ==
    CASE Tag(self) = "This" -> Return(This(Payload(self)))
      [] Tag(self) = "That" -> Return(That(Payload(self)))

\* Two This or two That: the payload is overwritten where it is; otherwise
\* *destination = source.clone(), which drops the union that was there.
Double_clone_from(self, source) ==
    CASE Tag(self) = "This" /\ Tag(source) = "This" ->
            [self |-> This(Payload(source)), ret |-> <<>>,
             calls |-> 0, panic |-> FALSE, msg |-> <<>>,
             dropped |-> <<>>, forgotten |-> <<>>]
      [] Tag(self) = "That" /\ Tag(source) = "That" ->
            [self |-> That(Payload(source)), ret |-> <<>>,
             calls |-> 0, panic |-> FALSE, msg |-> <<>>,
             dropped |-> <<>>, forgotten |-> <<>>]
      [] OTHER ->
            [self |-> Double_clone(source).ret, ret |-> <<>>,
             calls |-> 0, panic |-> FALSE, msg |-> <<>>,
             dropped |-> <<self>>, forgotten |-> <<>>]

DoubleOption_clone(self) ==
    CASE Tag(self) = "First" -> Return(First(Payload(self)))
      [] Tag(self) = "Second" -> Return(Second(Payload(self)))
      [] Tag(self) = "Empty" -> Return(DoubleOption_Empty)

DoubleOption_clone_from(self, source) ==
    CASE Tag(self) = "First" /\ Tag(source) = "First" ->
            [self |-> First(Payload(source)), ret |-> <<>>,
             calls |-> 0, panic |-> FALSE, msg |-> <<>>,
             dropped |-> <<>>, forgotten |-> <<>>]
      [] Tag(self) = "Second" /\ Tag(source) = "Second" ->
            [self |-> Second(Payload(source)), ret |-> <<>>,
             calls |-> 0, panic |-> FALSE, msg |-> <<>>,
             dropped |-> <<>>, forgotten |-> <<>>]
      [] OTHER ->
            [self |-> DoubleOption_clone(source).ret, ret |-> <<>>,
             calls |-> 0, panic |-> FALSE, msg |-> <<>>,
             dropped |-> <<self>>, forgotten |-> <<>>]

\* The closures the driver passes to the methods of Double.
BoolFns ==
    { [x \in Ints |-> TRUE],
      [x \in Ints |-> FALSE],
      [x \in Ints |-> x >= 0] }

UnionFns ==
    { [a \in Ints, b \in Ints |-> (MaxVal + MaxErr + 1) * a + b],
      [a \in Ints, b \in Ints |-> a - b] }


\* The messages the driver passes to expect and expect_error.
Msgs == {"no value", "no error"}


\* The closures FnOnce(T) -> M and FnOnce(E) -> M the driver passes, M = i32.
MapFns ==
    { [x \in Ints |-> x + 1],
      [x \in Ints |-> 0 - x] }

\* The predicates FnOnce(&Self) -> bool the driver passes.
SelfPreds ==
    { [s \in ErrorOptions |-> TRUE],
      [s \in ErrorOptions |-> FALSE],
      [s \in ErrorOptions |-> Tag(s) # "Error"] }

\* The closures FnOnce(&Self) -> Self the driver passes.
SelfFns ==
    { [s \in ErrorOptions |-> s],
      [s \in ErrorOptions |-> Empty] }

\* The Option<U> values the driver passes.
Options == {Some(u) : u \in Vals} \cup {None}

\* One union of each variant, for the arguments whose payload plays no part.
OneOfEach == {Value(T_default), Empty, Error(0 - 1)}

\* The ErrorOption<(T, U), E> values the driver unzips.
PairOptions ==
    {Value(<<a, T_default>>) : a \in Vals} \cup {Empty, Error(0 - 1)}


\* The builds of the crate, as far as undefined behaviour tells them apart.
Builds == {<<"debug_assertions">>} \cup {<<"release", x>> : x \in Vals}

\* The closures the driver passes to and_then.
AndThenFns ==
    { [v \in Vals |-> Value(v)],
      [v \in Vals |-> Value(MaxVal - v)],
      [v \in Vals |-> Empty],
      [v \in Vals |-> IF v = 0 THEN Error(0 - 1) ELSE Value(v)] }

\* ---------------------------------------------------------------- harness
\* The record of a call of method name on the union self. Only a method that
\* overwrites self disposes of a union; its outcome says of which.
ApplyOn(self, name, a, o) ==
    /\ op' = name
    /\ prev' = op
    /\ pre' = self
    /\ arg' = a
    /\ res' = o.ret
    /\ calls' = o.calls
    /\ panicked' = o.panic
    /\ report' = o.msg
    /\ dropped' = IF "dropped" \in DOMAIN o THEN o.dropped ELSE <<>>
    /\ forgotten' = IF "forgotten" \in DOMAIN o THEN o.forgotten ELSE <<>>

\* A call of a by-value or by-shared-reference method: the cell stays.
Apply(name, a, o) == ApplyOn(cell, name, a, o)

CallValueOrDefault ==
    \E err \in Errs :
        /\ Apply("value_or_default", <<err>>, value_or_default(cell, err))
        /\ UNCHANGED <<cell, otherVars>>

CallValueOr ==
    \E err \in Errs :
        /\ Apply("value_or", <<err>>, value_or(cell, err))
        /\ UNCHANGED <<cell, otherVars>>

CallAsResult ==
    /\ Apply("as_result", <<>>, as_result(cell))
    /\ UNCHANGED <<cell, otherVars>>

CallZip ==
    \E other \in ErrorOptions :
        /\ Apply("zip", <<other>>, zip(cell, other))
        /\ UNCHANGED <<cell, otherVars>>

CallXor ==
    \E optb \in ErrorOptions :
        /\ Apply("xor", <<optb>>, xor(cell, optb))
        /\ UNCHANGED <<cell, otherVars>>

CallOr ==
    \E optb \in ErrorOptions :
        /\ Apply("or", <<optb>>, or(cell, optb))
        /\ UNCHANGED <<cell, otherVars>>

CallOrElse ==
    \E f \in ErrorOptions :
        /\ Apply("or_else", <<f>>, or_else(cell, f))
        /\ UNCHANGED <<cell, otherVars>>

CallAnd ==
    \E optb \in ErrorOptions :
        /\ Apply("and", <<optb>>, and(cell, optb))
        /\ UNCHANGED <<cell, otherVars>>

CallAndThen ==
    \E f \in AndThenFns :
        /\ Apply("and_then", <<f>>, and_then(cell, f))
        /\ UNCHANGED <<cell, otherVars>>


CallExpect ==
    \E msg \in Msgs :
        /\ Apply("expect", <<msg>>, expect(cell, msg))
        /\ UNCHANGED <<cell, otherVars>>

CallExpectError ==
    \E msg \in Msgs :
        /\ Apply("expect_error", <<msg>>, expect_error(cell, msg))
        /\ UNCHANGED <<cell, otherVars>>

CallUnwrap ==
    /\ Apply("unwrap", <<>>, unwrap(cell))
    /\ UNCHANGED <<cell, otherVars>>

CallUnwrapError ==
    /\ Apply("unwrap_error", <<>>, unwrap_error(cell))
    /\ UNCHANGED <<cell, otherVars>>

\* A call of a &mut self method: the cell becomes what the method left.
ApplyMut(name, a, o) ==
    /\ Apply(name, a, o)
    /\ cell' = o.self

CallTake ==
    /\ ApplyMut("take", <<>>, take(cell))
    /\ UNCHANGED otherVars

CallReplace ==
    \E value \in Vals :
        /\ ApplyMut("replace", <<value>>, replace(cell, value))
        /\ UNCHANGED otherVars

CallInsert ==
    \E value \in Vals :
        /\ ApplyMut("insert", <<value>>, insert(cell, value))
        /\ UNCHANGED otherVars


CallGetOrInsert ==
    \E value \in Vals :
        /\ ApplyMut("get_or_insert", <<value>>, get_or_insert(cell, value))
        /\ UNCHANGED otherVars

CallGetOrInsertDefault ==
    /\ ApplyMut("get_or_insert_default", <<>>, get_or_insert_default(cell))
    /\ UNCHANGED otherVars

CallGetOrInsertWith ==
    \E f \in Vals :
        /\ ApplyMut("get_or_insert_with", <<f>>, get_or_insert_with(cell, f))
        /\ UNCHANGED otherVars

\* Deriving an iterator from the cell; an earlier iterator is dropped.
Derive(i) ==
    /\ it' = i
    /\ src' = cell
    /\ out' = <<>>
    /\ UNCHANGED <<cell, dbl, dopt, callVars>>

CallIter == Derive(iter(cell))

CallIterMut == Derive(iter_mut(cell))

CallIntoIter == Derive(into_iter(cell))

\* One step of the live iterator, from either end.
Step(dir, o) ==
    /\ it' = o.self
    /\ out' = Append(out, <<dir, o.ret>>)
    /\ UNCHANGED <<cell, dbl, dopt, src, callVars>>

StepNext ==
    /\ it.kind /= "none"
    /\ Len(out) < MaxSteps
    /\ Step("next", next(it))

StepNextBack ==
    /\ it.kind /= "none"
    /\ Len(out) < MaxSteps
    /\ Step("next_back", next_back(it))


\* A call of a method of Double on dbl; Double has no method that changes it.
ApplyDouble(name, a, o) ==
    /\ ApplyOn(dbl, name, a, o)
    /\ UNCHANGED <<cell, dbl, dopt, iterVars>>

CallDoubleIsThis == ApplyDouble("Double::is_this", <<>>, Double_is_this(dbl))

CallDoubleIsThat == ApplyDouble("Double::is_that", <<>>, Double_is_that(dbl))

CallDoubleIsThisAnd ==
    \E f \in BoolFns :
        ApplyDouble("Double::is_this_and", <<f>>, Double_is_this_and(dbl, f))

CallDoubleIsThatAnd ==
    \E f \in BoolFns :
        ApplyDouble("Double::is_that_and", <<f>>, Double_is_that_and(dbl, f))

CallDoubleThisOrElse ==
    \E f \in Errs :
        ApplyDouble("Double::this_or_else", <<f>>, Double_this_or_else(dbl, f))

CallDoubleThatOrElse ==
    \E f \in Errs :
        ApplyDouble("Double::that_or_else", <<f>>, Double_that_or_else(dbl, f))

CallDoubleFlip == ApplyDouble("Double::flip", <<>>, Double_flip(dbl))

CallDoubleSwitch == ApplyDouble("Double::switch", <<>>, Double_switch(dbl))

CallDoubleUnwrapThisOrElse ==
    \E f \in Vals :
        ApplyDouble("Double::unwrap_this_or_else", <<f>>,
                    Double_unwrap_this_or_else(dbl, f))

CallDoubleUnwrapThatOrElse ==
    \E f \in Vals :
        ApplyDouble("Double::unwrap_that_or_else", <<f>>,
                    Double_unwrap_that_or_else(dbl, f))

CallDoubleUnwrapUnion ==
    \E other \in Doubles, f \in UnionFns :
        ApplyDouble("Double::unwrap_union", <<other, f>>,
                    Double_unwrap_union(dbl, other, f))


CallIsValue ==
    /\ Apply("is_value", <<>>, is_value(cell))
    /\ UNCHANGED <<cell, otherVars>>

CallIsEmpty ==
    /\ Apply("is_empty", <<>>, is_empty(cell))
    /\ UNCHANGED <<cell, otherVars>>

CallIsError ==
    /\ Apply("is_error", <<>>, is_error(cell))
    /\ UNCHANGED <<cell, otherVars>>

\* A call of a method of DoubleOption on dopt; none of them changes it.
ApplyDoubleOption(name, a, o) ==
    /\ ApplyOn(dopt, name, a, o)
    /\ UNCHANGED <<cell, dbl, dopt, iterVars>>

CallDoubleOptionIsFist ==
    ApplyDoubleOption("DoubleOption::is_fist", <<>>, DoubleOption_is_fist(dopt))

CallDoubleOptionIsSecond ==
    ApplyDoubleOption("DoubleOption::is_second", <<>>, DoubleOption_is_second(dopt))

CallDoubleOptionIsEmpty ==
    ApplyDoubleOption("DoubleOption::is_empty", <<>>, DoubleOption_is_empty(dopt))

\* The driver asks for the default DoubleOption.
CallDoubleOptionDefault ==
    ApplyDoubleOption("DoubleOption::default", <<>>, Return(DoubleOption_default))


\* A call of a method that leaves the cell as it is.
Query(name, a, o) ==
    /\ Apply(name, a, o)
    /\ UNCHANGED <<cell, otherVars>>

\* What every specification starts from besides the unions themselves.
InitCalls ==
    /\ op = ""
    /\ prev = ""
    /\ pre = Empty
    /\ arg = <<>>
    /\ res = <<>>
    /\ calls = 0
    /\ panicked = FALSE
    /\ report = <<>>
    /\ dropped = <<>>
    /\ forgotten = <<>>
    /\ it = NoIter
    /\ src = Empty
    /\ out = <<>>

InitDouble ==
    /\ cell = Empty
    /\ dbl \in Doubles
    /\ dopt = <<"Empty">>
    /\ InitCalls

NextDouble ==
    \/ CallDoubleIsThis
    \/ CallDoubleIsThat
    \/ CallDoubleIsThisAnd
    \/ CallDoubleIsThatAnd
    \/ CallDoubleThisOrElse
    \/ CallDoubleThatOrElse
    \/ CallDoubleFlip
    \/ CallDoubleSwitch
    \/ CallDoubleUnwrapThisOrElse
    \/ CallDoubleUnwrapThatOrElse
    \/ CallDoubleUnwrapUnion

SpecDouble == InitDouble /\ [][NextDouble]_vars

Init ==
    /\ cell \in ErrorOptions
    /\ dbl = This(0)
    /\ dopt = <<"Empty">>
    /\ InitCalls

Next ==
    \/ CallValueOrDefault
    \/ CallValueOr
    \/ CallAsResult
    \/ CallZip
    \/ CallXor
    \/ CallOr
    \/ CallOrElse
    \/ CallAnd
    \/ CallAndThen
    \/ CallTake
    \/ CallReplace
    \/ CallInsert
    \/ CallGetOrInsert
    \/ CallGetOrInsertDefault
    \/ CallGetOrInsertWith
    \/ CallExpect
    \/ CallExpectError
    \/ CallUnwrap
    \/ CallUnwrapError
    \/ CallIsValue
    \/ CallIsEmpty
    \/ CallIsError

Spec == Init /\ [][Next]_vars

NextIter ==
    \/ CallIter
    \/ CallIterMut
    \/ CallIntoIter
    \/ StepNext
    \/ StepNextBack

SpecIter == Init /\ [][NextIter]_vars



\* Every operation of ErrorOption on the cell: those of Next and, one
\* disjunct each, the others. iter and iter_mut are calls that return, the
\* iterator being the result; unzip is called on a union of pairs the driver
\* builds; copied and cloned are called on the view as_ref gives of the cell.
NextTotal ==
    \/ Next
    \/ \E f \in BoolFns : Query("is_value_and", <<f>>, is_value_and(cell, f))
    \/ \E f \in BoolFns : Query("is_error_and", <<f>>, is_error_and(cell, f))
    \/ Query("as_option", <<>>, Return(as_option(cell)))
    \/ Query("error", <<>>, error(cell))
    \/ \E f \in Errs : Query("value_or_else", <<f>>, value_or_else(cell, f))
    \/ Query("result", <<>>, result(cell))
    \/ Query("switch", <<>>, switch(cell))
    \/ Query("as_ref", <<>>, Return(as_ref(cell)))
    \/ Query("as_mut", <<>>, Return(as_mut(cell)))
    \/ \E default_value \in Vals :
            Query("unwrap_or", <<default_value>>, unwrap_or(cell, default_value))
    \/ \E f \in Vals : Query("unwrap_or_else", <<f>>, unwrap_or_else(cell, f))
    \/ Query("unwrap_or_default", <<>>, unwrap_or_default(cell))
    \/ \E build \in Builds :
            Query("unwrap_unchecked", <<>>, unwrap_unchecked(cell, build))
    \/ \E f \in MapFns : Query("map", <<f>>, map(cell, f))
    \/ \E default_value \in Vals, f \in MapFns :
            Query("map_or", <<default_value, f>>, map_or(cell, default_value, f))
    \/ \E default_fn \in Vals, f \in MapFns :
            Query("map_or_else", <<default_fn, f>>, map_or_else(cell, default_fn, f))
    \/ \E default_error \in MapFns, default_fn \in {T_default}, f \in MapFns :
            Query("map_or_error", <<default_error, default_fn, f>>,
                  map_or_error(cell, default_error, default_fn, f))
    \/ \E f \in MapFns : Query("map_error", <<f>>, map_error(cell, f))
    \/ Query("inspect", <<>>, inspect(cell))
    \/ Query("inspect_err", <<>>, inspect_err(cell))
    \/ Query("as_deref", <<>>, as_deref(cell))
    \/ Query("as_deref_mut", <<>>, as_deref_mut(cell))
    \/ Query("iter", <<>>, Return(iter(cell)))
    \/ Query("iter_mut", <<>>, Return(iter_mut(cell)))
    \/ \E predicate \in BoolFns : Query("filter", <<predicate>>, filter(cell, predicate))
    \/ \E predicate \in BoolFns, default_value \in OneOfEach :
            Query("filter_or", <<predicate, default_value>>,
                  filter_or(cell, predicate, default_value))
    \/ \E predicate \in BoolFns, default_fn \in OneOfEach :
            Query("filter_or_else", <<predicate, default_fn>>,
                  filter_or_else(cell, predicate, default_fn))
    \/ \E predicate \in SelfPreds :
            Query("filter_predicate", <<predicate>>, filter_predicate(cell, predicate))
    \/ \E predicate \in SelfPreds, default_value \in OneOfEach :
            Query("filter_predicate_or", <<predicate, default_value>>,
                  filter_predicate_or(cell, predicate, default_value))
    \/ \E predicate \in SelfPreds, default_fn \in SelfFns :
            Query("filter_predicate_or_else", <<predicate, default_fn>>,
                  filter_predicate_or_else(cell, predicate, default_fn))
    \/ \E other \in OneOfEach : Query("zip_to_option", <<other>>, zip_to_option(cell, other))
    \/ \E other \in Options :
            Query("zip_with_option", <<other>>, zip_with_option(cell, other))
    \/ \E other \in OneOfEach, f \in UnionFns :
            Query("zip_with", <<other, f>>, zip_with(cell, other, f))
    \/ \E other \in OneOfEach, f \in UnionFns :
            Query("zip_to_option_with", <<other, f>>, zip_to_option_with(cell, other, f))
    \/ \E self \in PairOptions :
            /\ ApplyOn(self, "unzip", <<>>, unzip(self))
            /\ UNCHANGED <<cell, otherVars>>
    \/ Query("copied", <<>>, copied(as_ref(cell)))
    \/ Query("cloned", <<>>, cloned(as_ref(cell)))

SpecTotal == Init /\ [][NextTotal]_vars


\* The calls that change the cell in place, and no other.
NextMutate ==
    \/ CallInsert
    \/ CallGetOrInsert
    \/ CallGetOrInsertDefault
    \/ CallGetOrInsertWith
    \/ CallTake
    \/ CallReplace

SpecMutate == Init /\ [][NextMutate]_vars


\* The calls whose result holds a &mut into the cell: as_mut and as_deref_mut
\* into the payload of a Value or an Error, the others into that of a Value
\* only (iter_mut through the item its iterator yields).
UnionViews == {"as_mut", "as_deref_mut"}
ValueViews == {"iter_mut", "insert", "get_or_insert", "get_or_insert_default",
               "get_or_insert_with"}

\* The life of one cell: the calls that change it in place, clone_from, the
\* calls that give a view of it, and a write through the mutable view the
\* last call gave (the borrow allows no other call in between).
NextCell ==
    \/ NextMutate
    \/ \E source \in ErrorOptions :
            /\ ApplyMut("clone_from", <<source>>, clone_from(cell, source))
            /\ UNCHANGED otherVars
    \/ Query("as_ref", <<>>, Return(as_ref(cell)))
    \/ Query("as_mut", <<>>, Return(as_mut(cell)))
    \/ Query("as_deref", <<>>, as_deref(cell))
    \/ Query("as_deref_mut", <<>>, as_deref_mut(cell))
    \/ Query("iter", <<>>, Return(iter(cell)))
    \/ Query("iter_mut", <<>>, Return(iter_mut(cell)))
    \/ /\ op \in UnionViews \cup ValueViews
       /\ Tag(cell) = "Value"
       /\ \E x \in Vals :
            /\ ApplyMut("write", <<x>>, write_through(cell, x))
            /\ UNCHANGED otherVars
    \/ /\ op \in UnionViews
       /\ Tag(cell) = "Error"
       /\ \E x \in Errs :
            /\ ApplyMut("write", <<x>>, write_through(cell, x))
            /\ UNCHANGED otherVars

SpecCell == Init /\ [][NextCell]_vars

\* One union of each type, and the queries on them.
InitUnions ==
    /\ cell \in ErrorOptions
    /\ dbl \in Doubles
    /\ dopt \in DoubleOptions
    /\ InitCalls

NextUnions ==
    \/ CallDoubleIsThis
    \/ CallDoubleIsThat
    \/ CallDoubleOptionIsFist
    \/ CallDoubleOptionIsSecond
    \/ CallDoubleOptionIsEmpty
    \/ CallDoubleOptionDefault
    \/ CallIsValue
    \/ CallIsEmpty
    \/ CallIsError

SpecUnions == InitUnions /\ [][NextUnions]_vars


\* clone and clone_from of one union of each type; the source of clone_from
\* is borrowed shared and so is the same after the call.
NextClone ==
    \/ Query("clone", <<>>, clone(cell))
    \/ \E source \in ErrorOptions :
            /\ ApplyMut("clone_from", <<source>>, clone_from(cell, source))
            /\ UNCHANGED otherVars
    \/ ApplyDouble("Double::clone", <<>>, Double_clone(dbl))
    \/ \E source \in Doubles :
            /\ ApplyOn(dbl, "Double::clone_from", <<source>>, Double_clone_from(dbl, source))
            /\ dbl' = Double_clone_from(dbl, source).self
            /\ UNCHANGED <<cell, dopt, iterVars>>
    \/ ApplyDoubleOption("DoubleOption::clone", <<>>, DoubleOption_clone(dopt))
    \/ \E source \in DoubleOptions :
            /\ ApplyOn(dopt, "DoubleOption::clone_from", <<source>>,
                       DoubleOption_clone_from(dopt, source))
            /\ dopt' = DoubleOption_clone_from(dopt, source).self
            /\ UNCHANGED <<cell, dbl, iterVars>>

SpecClone == InitUnions /\ [][NextClone]_vars

\* ================================================================ claims

IsValue(u) == Tag(u) = "Value"

\* C1: value_or_default(err) gives Ok(v) on Value(v), Err(err) (the supplied
\* value) on Empty, and Err(e) (the original payload, not err) on Error(e).
C1_ValueOrDefault ==
    op = "value_or_default" =>
        /\ Tag(pre) = "Value" => res = Ok(Payload(pre))
        /\ Tag(pre) = "Empty" => res = Err(arg[1])
        /\ Tag(pre) = "Error" => res = Err(Payload(pre))
        /\ (Tag(pre) = "Error" /\ arg[1] /= Payload(pre)) => res /= Err(arg[1])

C1_Witness ==
    /\ op = "value_or_default"
    /\ Tag(pre) = "Error"
    /\ arg[1] /= Payload(pre)
    /\ res = Err(Payload(pre))

\* C2: value_or(err) gives Ok(v) on Value(v) and Err(err) on both Empty and
\* Error(e); the payload e of an Error never shows in the result.
C2_ValueOr ==
    op = "value_or" =>
        /\ Tag(pre) = "Value" => res = Ok(Payload(pre))
        /\ Tag(pre) \in {"Empty", "Error"} => res = Err(arg[1])
        /\ (Tag(pre) = "Error" /\ arg[1] /= Payload(pre)) => res /= Err(Payload(pre))

C2_Witness ==
    /\ op = "value_or"
    /\ Tag(pre) = "Error"
    /\ arg[1] /= Payload(pre)
    /\ res = Err(arg[1])

\* C3: as_result() gives Ok(v) on Value(v), Ok(0) (the default of the value
\* type) on Empty, and Err(e) on Error(e).
C3_AsResult ==
    op = "as_result" =>
        /\ Tag(pre) = "Value" => res = Ok(Payload(pre))
        /\ Tag(pre) = "Empty" => res = Ok(0)
        /\ Tag(pre) = "Error" => res = Err(Payload(pre))

C3_Witness ==
    /\ op = "as_result"
    /\ pre = Empty
    /\ res = Ok(0)

\* C4: zip(other) is Value((a, b)) exactly when self is Value(a) and other is
\* Value(b); every other combination, with or without an Error, is Empty.
C4_Zip ==
    op = "zip" =>
        /\ (IsValue(pre) /\ IsValue(arg[1])) =>
                res = Value(<<Payload(pre), Payload(arg[1])>>)
        /\ ~(IsValue(pre) /\ IsValue(arg[1])) => res = Empty

C4_Witness ==
    /\ op = "zip"
    /\ Tag(pre) = "Error"
    /\ Tag(arg[1]) = "Value"
    /\ res = Empty

\* C5: xor(alt) is the one Value, with its payload, when exactly one of self
\* and alt is Value; otherwise (both Value, or neither) it is Empty; the call
\* never panics.
C5_Xor ==
    op = "xor" =>
        /\ ~panicked
        /\ (IsValue(pre) /\ ~IsValue(arg[1])) => res = Value(Payload(pre))
        /\ (~IsValue(pre) /\ IsValue(arg[1])) => res = Value(Payload(arg[1]))
        /\ (IsValue(pre) <=> IsValue(arg[1])) => res = Empty

C5_Witness ==
    /\ op = "xor"
    /\ IsValue(pre)
    /\ IsValue(arg[1])
    /\ Payload(pre) /= Payload(arg[1])
    /\ res = Empty
    /\ ~panicked

\* C6: or(alt) and or_else(producer) give Value(v) on Value(v), without
\* running the producer; on Empty and on Error(e) alike they give exactly alt
\* (the producer's output, the producer run once), e being discarded.
C6_OrOrElse ==
    /\ op = "or" =>
        /\ IsValue(pre) => res = Value(Payload(pre))
        /\ ~IsValue(pre) => res = arg[1]
    /\ op = "or_else" =>
        /\ IsValue(pre) => (res = Value(Payload(pre)) /\ calls = 0)
        /\ ~IsValue(pre) => (res = arg[1] /\ calls = 1)

C6_Witness ==
    /\ op = "or_else"
    /\ Tag(pre) = "Error"
    /\ Tag(arg[1]) = "Error"
    /\ arg[1] /= pre
    /\ res = arg[1]
    /\ calls = 1

\* C7: and(next) and and_then(f) give next (f(v)) on Value(v), Empty on Empty
\* and Error(e), same payload, on Error(e); f is not run on Empty or Error.
C7_AndAndThen ==
    /\ op = "and" =>
        /\ IsValue(pre) => res = arg[1]
        /\ Tag(pre) = "Empty" => res = Empty
        /\ Tag(pre) = "Error" => res = Error(Payload(pre))
    /\ op = "and_then" =>
        /\ IsValue(pre) => res = arg[1][Payload(pre)]
        /\ Tag(pre) = "Empty" => (res = Empty /\ calls = 0)
        /\ Tag(pre) = "Error" => (res = Error(Payload(pre)) /\ calls = 0)

C7_Witness ==
    /\ op = "and_then"
    /\ Tag(pre) = "Error"
    /\ res = pre
    /\ calls = 0

\* C10: take() returns the prior state, whichever variant it was, and leaves
\* the cell Empty; a take() right after a take() returns Empty.
C10_Take ==
    /\ op = "take" => (res = pre /\ cell = Empty)
    /\ (op = "take" /\ prev = "take") => res = Empty

C10_Witness ==
    /\ op = "take"
    /\ Tag(pre) = "Error"
    /\ res = pre
    /\ cell = Empty

\* What the steps taken so far yielded, and how many of them an element.
Yielded == {i \in 1..Len(out) : out[i][2] /= None}

\* The number of elements the iterator i yields over the steps ds, a sequence
\* of "next" and "next_back".
RECURSIVE YieldCount(_, _)
YieldCount(i, ds) ==
    IF ds = <<>>
    THEN 0
    ELSE LET o == IF Head(ds) = "next" THEN next(i) ELSE next_back(i)
         IN  (IF o.ret /= None THEN 1 ELSE 0) + YieldCount(o.self, Tail(ds))

Walks == UNION {[1..n -> {"next", "next_back"}] : n \in 0..MaxSteps}

\* C8: for iter, iter_mut and into_iter alike, the iterator of Value(v) yields
\* v on its first step, forward or reverse, and nothing on every later step;
\* the iterator of Empty or Error(e) yields nothing on every step.
C8_IterYieldsOnce ==
    it.kind /= "none" =>
        \A i \in 1..Len(out) :
            out[i][2] = IF IsValue(src) /\ i = 1 THEN Some(Payload(src)) ELSE None

C8_Witness ==
    /\ it.kind = "IntoIter"
    /\ IsValue(src)
    /\ Len(out) = 3
    /\ out[1] = <<"next_back", Some(Payload(src))>>
    /\ out[2] = <<"next", None>>
    /\ out[3] = <<"next_back", None>>

\* C9: the size an iterator reports is exact (lower bound = upper bound), is
\* 0 or 1, is 1 only for an iterator of Value that has not yielded yet, and
\* is the number of elements any further steps yield.
C9_ExactSize ==
    it.kind /= "none" =>
        LET n == size_hint(it)[1]
        IN  /\ size_hint(it) = <<n, Some(n)>>
            /\ n \in {0, 1}
            /\ n = 1 <=> (IsValue(src) /\ Yielded = {})
            /\ \A ds \in Walks : YieldCount(it, ds) = IF Len(ds) = 0 THEN 0 ELSE n

C9_Witness ==
    /\ it.kind = "IterMut"
    /\ IsValue(src)
    /\ Len(out) = 1
    /\ Yielded = {1}
    /\ size_hint(it) = <<0, Some(0)>>

\* C11: replace(value) returns the prior state whole (an Error(e) with its
\* payload, not collapsed to Empty) and leaves the cell Value(value).
C11_Replace ==
    op = "replace" => (res = pre /\ cell = Value(arg[1]))

C11_Witness ==
    /\ op = "replace"
    /\ Tag(pre) = "Error"
    /\ res = Error(Payload(pre))
    /\ cell = Value(arg[1])

\* C12: get_or_insert(value), get_or_insert_default() and
\* get_or_insert_with(producer) leave a Value(v) as it is, return a view of v
\* and do not run the producer; an Empty or Error(e) cell becomes
\* Value(value) (Value(0), Value(producer())) and the view is of that payload.
C12_GetOrInsert ==
    /\ op \in {"get_or_insert", "get_or_insert_default", "get_or_insert_with"} =>
        /\ IsValue(cell)
        /\ res = Payload(cell)
        /\ IsValue(pre) => (cell = pre /\ calls = 0)
    /\ (op = "get_or_insert" /\ ~IsValue(pre)) => cell = Value(arg[1])
    /\ (op = "get_or_insert_default" /\ ~IsValue(pre)) => cell = Value(0)
    /\ (op = "get_or_insert_with" /\ ~IsValue(pre)) =>
            (cell = Value(arg[1]) /\ calls = 1)

C12_Witness ==
    /\ op = "get_or_insert_with"
    /\ Tag(pre) = "Error"
    /\ cell = Value(arg[1])
    /\ res = arg[1]
    /\ calls = 1

\* C13: unwrap_union(other, f) on opposite variants is f(a, b), a the This
\* payload and b the That payload whichever operand holds which, so that
\* x.unwrap_union(y, f) = y.unwrap_union(x, f); on two This or two That the
\* call panics and f is not run.
C13_UnwrapUnion ==
    op = "Double::unwrap_union" =>
        LET other == arg[1]
            f == arg[2]
        IN  /\ (Tag(pre) = "This" /\ Tag(other) = "That") =>
                    (~panicked /\ res = f[Payload(pre), Payload(other)])
            /\ (Tag(pre) = "That" /\ Tag(other) = "This") =>
                    (~panicked /\ res = f[Payload(other), Payload(pre)])
            /\ Tag(pre) /= Tag(other) =>
                    Double_unwrap_union(other, pre, f).ret = res
            /\ Tag(pre) = Tag(other) => (panicked /\ calls = 0)

C13_Witness ==
    /\ op = "Double::unwrap_union"
    /\ Tag(pre) = "That"
    /\ Tag(arg[1]) = "This"
    /\ ~panicked
    /\ res = arg[2][Payload(arg[1]), Payload(pre)]
    /\ res /= arg[2][Payload(pre), Payload(arg[1])]

\* C14: flip and switch give the same result on every Double, swap the
\* variant and keep the payload, and each undoes itself when applied twice.
C14_FlipSwitch ==
    /\ Double_flip(dbl).ret = Double_switch(dbl).ret
    /\ Tag(dbl) = "This" => Double_flip(dbl).ret = That(Payload(dbl))
    /\ Tag(dbl) = "That" => Double_flip(dbl).ret = This(Payload(dbl))
    /\ Double_flip(Double_flip(dbl).ret).ret = dbl
    /\ Double_switch(Double_switch(dbl).ret).ret = dbl
    /\ op \in {"Double::flip", "Double::switch"} =>
            /\ ~panicked
            /\ Tag(res) /= Tag(pre)
            /\ Payload(res) = Payload(pre)

C14_Witness ==
    /\ op = "Double::switch"
    /\ prev = "Double::flip"
    /\ Tag(pre) = "That"
    /\ res = This(Payload(pre))

\* C18: a closure handed to a Double method runs once when the union holds
\* the variant it is needed for and not at all otherwise: is_this_and and
\* is_that_and return false on the other variant without asking p, and the
\* four _or_else methods do not run f when the requested variant is there.
C18_LazyClosures ==
    /\ op = "Double::is_this_and" =>
        /\ Tag(pre) = "This" => (calls = 1 /\ res = arg[1][Payload(pre)])
        /\ Tag(pre) = "That" => (calls = 0 /\ res = FALSE)
    /\ op = "Double::is_that_and" =>
        /\ Tag(pre) = "That" => (calls = 1 /\ res = arg[1][Payload(pre)])
        /\ Tag(pre) = "This" => (calls = 0 /\ res = FALSE)
    /\ op = "Double::this_or_else" =>
        /\ Tag(pre) = "This" => (calls = 0 /\ res = Ok(Payload(pre)))
        /\ Tag(pre) = "That" => (calls = 1 /\ res = Err(arg[1]))
    /\ op = "Double::that_or_else" =>
        /\ Tag(pre) = "That" => (calls = 0 /\ res = Ok(Payload(pre)))
        /\ Tag(pre) = "This" => (calls = 1 /\ res = Err(arg[1]))
    /\ op = "Double::unwrap_this_or_else" =>
        /\ Tag(pre) = "This" => (calls = 0 /\ res = Payload(pre))
        /\ Tag(pre) = "That" => (calls = 1 /\ res = arg[1])
    /\ op = "Double::unwrap_that_or_else" =>
        /\ Tag(pre) = "That" => (calls = 0 /\ res = Payload(pre))
        /\ Tag(pre) = "This" => (calls = 1 /\ res = arg[1])

C18_Witness ==
    /\ op = "Double::is_that_and"
    /\ Tag(pre) = "This"
    /\ arg[1] = [x \in Ints |-> TRUE]
    /\ res = FALSE
    /\ calls = 0

\* C15: unwrap() returns v on Value(v) and panics on Empty and on Error(e)
\* with a fixed message naming the state hit, one message for Empty and
\* another for Error; unwrap_error() returns e on Error(e) and panics on
\* Empty and on Value(v), again naming the state.
C15_Unwrap ==
    /\ op = "unwrap" =>
        /\ Tag(pre) = "Value" => (~panicked /\ res = Payload(pre))
        /\ Tag(pre) \in {"Empty", "Error"} =>
            /\ panicked
            /\ report = <<"called ErrorOption::unwrap() on a ", Tag(pre), " value">>
    /\ op = "unwrap_error" =>
        /\ Tag(pre) = "Error" => (~panicked /\ res = Payload(pre))
        /\ Tag(pre) \in {"Empty", "Value"} =>
            /\ panicked
            /\ report = <<"called ErrorOption::unwrap_error() on a ", Tag(pre), " value">>

C15_Witness ==
    /\ op = "unwrap"
    /\ Tag(pre) = "Error"
    /\ panicked
    /\ report[2] = "Error"

\* C16: expect(msg) returns v on Value(v); on Error(e) and on Empty it panics
\* with a report that holds msg, followed by the debug rendering of e when
\* the state is Error(e). The same for expect_error, which returns e on
\* Error(e) and panics on Value(v) and on Empty.
C16_ExpectReportsMsg ==
    /\ op = "expect" =>
        /\ Tag(pre) = "Value" => (~panicked /\ res = Payload(pre))
        /\ Tag(pre) \in {"Empty", "Error"} => (panicked /\ report[1] = arg[1])
        /\ Tag(pre) = "Error" => report = <<arg[1], ": ", Debug(Payload(pre))>>
    /\ op = "expect_error" =>
        /\ Tag(pre) = "Error" => (~panicked /\ res = Payload(pre))
        /\ Tag(pre) \in {"Empty", "Value"} => (panicked /\ report[1] = arg[1])
        /\ Tag(pre) = "Value" => report = <<arg[1], ": ", Debug(Payload(pre))>>

\* Exactly one of the booleans bs is true.
ExactlyOne(bs) == Cardinality({i \in DOMAIN bs : bs[i]}) = 1

\* C17: of the variant predicates of a union exactly one is true, the one of
\* the variant held: is_this / is_that of a Double, is_fist / is_second /
\* is_empty of a DoubleOption, is_value / is_empty / is_error of an
\* ErrorOption; a predicate leaves the union as it was.
C17_OnePredicate ==
    /\ Double_is_this(dbl).ret = (Tag(dbl) = "This")
    /\ Double_is_that(dbl).ret = (Tag(dbl) = "That")
    /\ ExactlyOne(<<Double_is_this(dbl).ret, Double_is_that(dbl).ret>>)
    /\ DoubleOption_is_fist(dopt).ret = (Tag(dopt) = "First")
    /\ DoubleOption_is_second(dopt).ret = (Tag(dopt) = "Second")
    /\ DoubleOption_is_empty(dopt).ret = (Tag(dopt) = "Empty")
    /\ ExactlyOne(<<DoubleOption_is_fist(dopt).ret, DoubleOption_is_second(dopt).ret,
                    DoubleOption_is_empty(dopt).ret>>)
    /\ is_value(cell).ret = (Tag(cell) = "Value")
    /\ is_empty(cell).ret = (Tag(cell) = "Empty")
    /\ is_error(cell).ret = (Tag(cell) = "Error")
    /\ ExactlyOne(<<is_value(cell).ret, is_empty(cell).ret, is_error(cell).ret>>)
    /\ op \in {"Double::is_this", "Double::is_that"} => (dbl = pre /\ ~panicked)
    /\ op \in {"DoubleOption::is_fist", "DoubleOption::is_second",
               "DoubleOption::is_empty"} => (dopt = pre /\ ~panicked)
    /\ op \in {"is_value", "is_empty", "is_error"} => (cell = pre /\ ~panicked)

C17_Witness ==
    /\ op = "DoubleOption::is_fist"
    /\ Tag(pre) = "Second"
    /\ res = FALSE
    /\ dopt = pre
    /\ Tag(dbl) = "That"
    /\ Tag(cell) = "Error"

\* C20: the default-constructed DoubleOption is Empty.
C20_DefaultIsEmpty ==
    op = "DoubleOption::default" => res = DoubleOption_Empty

\* The operations that end in a fatal fault by design, and the unsafe one.
UnwrapFamily == {"expect", "expect_error", "unwrap", "unwrap_error", "unwrap_unchecked"}

\* C19: on every variant and with every argument, an operation of ErrorOption
\* other than expect, expect_error, unwrap, unwrap_error and unwrap_unchecked
\* returns normally: it raises no fatal fault and reports nothing; an Error it
\* meets comes back as a value.
C19_Total ==
    (op # "" /\ op \notin UnwrapFamily) =>
        /\ ~panicked
        /\ report = <<>>

C19_Witness ==
    /\ op = "result"
    /\ Tag(pre) = "Error"
    /\ res = Err(Payload(pre))
    /\ ~panicked

\* C24: in a sequence of insert, get_or_insert, get_or_insert_default,
\* get_or_insert_with, take and replace the cell is Value or Empty from the
\* first step on; an initial Error(e) is gone after that step, and only take
\* and replace return it, the others returning the view of the Value payload.
C24_NoErrorAfterMutation ==
    op # "" =>
        /\ Tag(cell) \in {"Value", "Empty"}
        /\ op \in {"take", "replace"} => res = pre
        /\ op \notin {"take", "replace"} => (res \in Vals /\ res = Payload(cell))

C24_Witness ==
    /\ prev = "get_or_insert_with"
    /\ op = "take"
    /\ Tag(pre) = "Value"
    /\ cell = Empty

\* C22: when get_or_insert(value) or get_or_insert_with(producer) overwrites
\* an Error(e), the call drops the replaced Error(e), and so e, exactly once
\* and forgets nothing, the two operations alike.
C22_ReplacedPayloadDropped ==
    (op \in {"get_or_insert", "get_or_insert_with"} /\ Tag(pre) = "Error") =>
        (dropped = <<pre>> /\ forgotten = <<>>)

\* C21: the variant tag of the cell changes only in a step that replaces the
\* whole value: insert, take, replace, get_or_insert / get_or_insert_default /
\* get_or_insert_with on a cell that is not a Value, clone_from with a source
\* of another variant. as_ref, as_mut, as_deref, as_deref_mut, iter, iter_mut
\* and a write through the mutable view they return leave the tag as it was.
C21_TagFrame ==
    [][ /\ Tag(cell') # Tag(cell) =>
            \/ op' \in {"insert", "take", "replace"}
            \/ /\ op' \in {"get_or_insert", "get_or_insert_default", "get_or_insert_with"}
               /\ Tag(cell) # "Value"
            \/ /\ op' = "clone_from"
               /\ Tag(arg'[1]) # Tag(cell)
        /\ op' \in {"as_ref", "as_mut", "as_deref", "as_deref_mut", "iter", "iter_mut",
                    "write"} => Tag(cell') = Tag(cell)
      ]_vars

C21_Witness ==
    /\ op = "write"
    /\ prev = "as_mut"
    /\ Tag(pre) = "Error"
    /\ cell = Error(arg[1])
    /\ cell # pre

\* Whether two unions hold a payload of the same variant, the case in which
\* clone_from overwrites the payload in place.
SamePayloadVariant(dst, source) == Tag(dst) = Tag(source) /\ Tag(dst) # "Empty"

\* C23: for Double, DoubleOption and ErrorOption alike, after
\* dst.clone_from(src) dst equals src, whether the payload was overwritten in
\* place (same variant: nothing is dropped) or dst was assigned a clone of src
\* (the old dst is dropped); clone() of a union equals it, Empty giving Empty.
C23_Clone ==
    /\ op \in {"clone", "Double::clone", "DoubleOption::clone"} =>
            (res = pre /\ ~panicked)
    /\ op = "clone" => cell = pre
    /\ op = "Double::clone" => dbl = pre
    /\ op = "DoubleOption::clone" => dopt = pre
    /\ op = "clone_from" => cell = arg[1]
    /\ op = "Double::clone_from" => dbl = arg[1]
    /\ op = "DoubleOption::clone_from" => dopt = arg[1]
    /\ op \in {"clone_from", "Double::clone_from", "DoubleOption::clone_from"} =>
            /\ ~panicked
            /\ dropped = IF SamePayloadVariant(pre, arg[1]) THEN <<>> ELSE <<pre>>

C23_Witness ==
    /\ op = "DoubleOption::clone_from"
    /\ Tag(pre) = "First"
    /\ Tag(arg[1]) = "Second"
    /\ dopt = arg[1]
    /\ dropped = <<pre>>
    /\ prev = "clone_from"
    /\ Tag(cell) = "Error"

====
